---------------------------- MODULE Spec2Model ----------------------------
(***************************************************************************)
(* A model of the EDR workshop API (src/api/observations.py and            *)
(* src/api/collection.py).                                                 *)
(*                                                                         *)
(*  - The location query GET /collections/observations/locations/{id}      *)
(*    (get_data_location_id and the functions it calls) is one request     *)
(*    whose position is pc; its arguments are drawn in Init, the catalog   *)
(*    listing and the time series are drawn when the accessors are called. *)
(*  - The collection metadata handler (get_collection_metadata, with the   *)
(*    memoized get_spatial_extent) is run by the callers of Callers.       *)
(*                                                                         *)
(* Strings that the code orders (parameter ids) are sequences of character *)
(* codes, so that str.casefold and the code point order are computed.      *)
(* Timestamps, longitudes and latitudes are integers: the code only        *)
(* compares and subtracts them.                                            *)
(***************************************************************************)
EXTENDS Integers, Sequences, FiniteSets

(***************************************************************************)
(* Bounds of the model.                                                    *)
(***************************************************************************)
\* timestamps of observations and of the requested interval are 0..MaxTime
MaxTime == 2
\* a parameter-name query lists at most MaxReq names
MaxReq == 2
\* longitudes are 5..5+MaxCoord, latitudes 52..52+MaxCoord
MaxCoord == 1
\* the catalog holds at most MaxStations stations
MaxStations == 2
\* the temporal extent spans at most MaxSpan units (days)
MaxSpan == 5
\* the sampling interval is 1..MaxInterval units
MaxInterval == 2
\* the catalog is reloaded at most MaxReloads times
MaxReloads == 1

Times == 0..MaxTime

(***************************************************************************)
(* Parameter ids: "D" = <<68>>, "F" = <<70>>, "f" = <<102>>.  "F" and "f"  *)
(* are different ids that are equal under case folding.                    *)
(***************************************************************************)
ParameterIds == {<<68>>, <<70>>, <<102>>}

RECURSIVE SeqsUpTo(_, _)
\* all sequences over S of length at most n
SeqsUpTo(S, n) ==
    IF n = 0 THEN {<<>>}
    ELSE LET shorter == SeqsUpTo(S, n - 1)
         IN  shorter \cup {Append(s, x) : s \in shorter, x \in S}

ToSet(s) == {s[i] : i \in 1..Len(s)}

IsInjective(s) == \A i, j \in 1..Len(s) : s[i] = s[j] => i = j

\* the listings the catalog accessor can give for a station: distinct
\* variables, in any order
Listings == {s \in SeqsUpTo(ParameterIds, Cardinality(ParameterIds)) : IsInjective(s)}

\* the lists of names a parameter-name string splits into; <<>> stands for
\* a query without parameter-name (None or the empty string)
RequestLists == SeqsUpTo(ParameterIds, MaxReq)

(***************************************************************************)
(* Python's str.casefold and string comparison, on code sequences.         *)
(***************************************************************************)
CaseFold(s) ==
    [i \in 1..Len(s) |-> IF s[i] >= 65 /\ s[i] <= 90 THEN s[i] + 32 ELSE s[i]]

RECURSIVE StrLess(_, _)
StrLess(a, b) ==
    IF b = <<>> THEN FALSE
    ELSE IF a = <<>> THEN TRUE
    ELSE IF a[1] # b[1] THEN a[1] < b[1]
    ELSE StrLess(Tail(a), Tail(b))

\* sorted(..., key=str.casefold) is stable: an element goes after the
\* elements whose key is not greater than its own
InsertCasefold(x, sorted) ==
    LET k == Cardinality({i \in 1..Len(sorted) :
                            ~StrLess(CaseFold(x), CaseFold(sorted[i]))})
    IN  SubSeq(sorted, 1, k) \o <<x>> \o SubSeq(sorted, k + 1, Len(sorted))

RECURSIVE SortedCasefold(_)
SortedCasefold(list) ==
    IF list = <<>> THEN <<>>
    ELSE InsertCasefold(list[Len(list)],
                        SortedCasefold(SubSeq(list, 1, Len(list) - 1)))

RECURSIVE DictKeys(_)
\* the key order of a dict built by a comprehension over list: insertion
\* order, a repeated key keeps its first place
DictKeys(list) ==
    IF list = <<>> THEN <<>>
    ELSE LET front == DictKeys(SubSeq(list, 1, Len(list) - 1))
             x     == list[Len(list)]
         IN  IF x \in ToSet(front) THEN front ELSE Append(front, x)

(***************************************************************************)
(* check_requested_parameters_exist                                        *)
(***************************************************************************)
UnavailableFirstOnly(requested_parameters, all_parameters) ==
    LET missing == {i \in 1..Len(requested_parameters) :
                      requested_parameters[i] \notin ToSet(all_parameters)}
    IN  IF missing = {} THEN {}
        ELSE {requested_parameters[CHOOSE i \in missing : \A j \in missing : i <= j]}

unavailable_parameters(requested_parameters, all_parameters) ==
    ToSet(requested_parameters) \ ToSet(all_parameters)

check_requested_parameters_exist(requested_parameters, all_parameters) ==
    ToSet(requested_parameters) \subseteq ToSet(all_parameters)

(***************************************************************************)
(* handle_datetime                                                         *)
(***************************************************************************)
IntervalRejectedWhenEqual(start, end) == end <= start

IntervalRejected(start, end) == end < start

(***************************************************************************)
(* get_coverage_for_station                                                *)
(***************************************************************************)
InWindowHalfOpen(t, start, end) == start <= t /\ t < end

InWindow(t, start, end) == start <= t /\ t <= end

\* [t for t, v in data if start_datetime <= t <= end_datetime]
FilterTimes(data, start, end) ==
    LET kept == SelectSeq(data, LAMBDA pt : InWindow(pt[1], start, end))
    IN  [i \in 1..Len(kept) |-> kept[i][1]]

\* the loop appending value for every (time, value) inside the interval
FilterValues(data, start, end) ==
    LET kept == SelectSeq(data, LAMBDA pt : InWindow(pt[1], start, end))
    IN  [i \in 1..Len(kept) |-> kept[i][2]]

NdArrayFloat(values) ==
    [axisNames |-> <<"t", "y", "x">>, shape |-> <<Len(values), 1, 1>>, values |-> values]

NoDataNever(t_axis_values) == FALSE

NoData(t_axis_values) == Len(t_axis_values) = 0

(***************************************************************************)
(* The Time Series Accessor get_data(wsi, parameter): the points of one    *)
(* station and parameter, ascending in time, no timestamp twice.  The      *)
(* value of a point names the point (parameter and time), so that the      *)
(* origin of every value of a range can be told.                           *)
(***************************************************************************)
ObservedValue(p, t) == p[1] * 10 + t

RECURSIVE SeriesOf(_, _)
SeriesOf(p, stamps) ==
    IF stamps = {} THEN <<>>
    ELSE LET last == CHOOSE t \in stamps : \A u \in stamps : u <= t
         IN  Append(SeriesOf(p, stamps \ {last}), <<last, ObservedValue(p, last)>>)

(***************************************************************************)
(* get_spatial_extent and get_collection_metadata                          *)
(***************************************************************************)
Longitudes == 5..(5 + MaxCoord)
Latitudes == 52..(52 + MaxCoord)
Station == [longitude : Longitudes, latitude : Latitudes]

\* the catalogs get_stations() can list: at most MaxStations stations
Catalogs == {c \in SUBSET Station : Cardinality(c) <= MaxStations}

\* the requests that run get_collection_metadata (GET /collections and
\* GET /collections/daily-in-situ-meteorological-observations-validated)
Callers == {"collections", "collection"}

SetMin(S) == CHOOSE x \in S : \A y \in S : x <= y
SetMax(S) == CHOOSE x \in S : \A y \in S : y <= x

get_spatial_extent_axes_mixed(stations) ==
    LET longs == {x.longitude : x \in stations}
        lats  == {x.latitude : x \in stations}
    IN  <<SetMin(longs), SetMin(lats), SetMax(lats), SetMax(longs)>>

\* the body of get_spatial_extent on a non-empty list of stations:
\* (left, bottom, right, top)
get_spatial_extent(stations) ==
    LET longs == {x.longitude : x \in stations}
        lats  == {x.latitude : x \in stations}
    IN  <<SetMin(longs), SetMin(lats), SetMax(longs), SetMax(lats)>>

\* int() of the fraction n/d, d > 0: the fraction truncated towards zero
IntOfFraction(n, d) == IF n >= 0 THEN n \div d ELSE -((-n) \div d)

RepeatsWithoutLast(start, end, duration_timedelta) ==
    IntOfFraction(end - start, duration_timedelta)

\* int((end - start) / duration_timedelta + 1)
Repeats(start, end, duration_timedelta) ==
    IntOfFraction((end - start) + duration_timedelta, duration_timedelta)

\* f"R{repeats}/{datetime_to_iso_string(start)}/{duration_str}"
TemporalValue(repeats, start, duration_str) ==
    <<"R", repeats, "/", start, "/", duration_str>>

VARIABLES
    pc,               \* position of the location request
    location_known,   \* whether get_station(location_id) finds the station
    datetime,         \* the instants the datetime string splits into
    parameter_name,   \* the names the parameter-name string splits into
    all_parameters,   \* the ids get_variables_for_station(location_id) listed
    start_datetime, end_datetime,
    parameters,       \* keys of the parameters dict, in dict order
    series,           \* what get_data returned, per parameter fetched
    t_axis_values,
    ranges,
    status,           \* HTTP status of the response, 0 while in progress
    detail,           \* detail of the HTTPException raised
    unavailable       \* the names the unknown-parameter error reports

obsVars == <<pc, location_known, datetime, parameter_name, all_parameters,
             start_datetime, end_datetime, parameters, series,
             t_axis_values, ranges, status, detail, unavailable>>

VARIABLES
    stations,          \* what get_stations() lists
    temporal_extent,   \* get_temporal_extent(): (start, end)
    temporal_interval, \* get_temporal_interval(): (duration_str, duration_timedelta)
    cache,             \* the memo of get_spatial_extent: <<>> or <<result>>
    cpc,               \* position of each caller of get_collection_metadata
    computed,          \* the result of the body of get_spatial_extent, per caller
    extent,            \* (left, bottom, right, top) as get_spatial_extent returned it
    repeats,
    temporal_values,
    reloads,           \* number of reloads of the catalog so far
    at_call,           \* the catalog as it was when the caller called get_spatial_extent
    reloaded           \* whether the catalog was reloaded during the caller's call

colVars == <<stations, temporal_extent, temporal_interval, cache, cpc, computed,
             extent, repeats, temporal_values, reloads, at_call, reloaded>>

vars == <<obsVars, colVars>>

NoSeries == [p \in {} |-> <<>>]

InitObs ==
    /\ pc = "get_station"
    /\ location_known \in BOOLEAN
    /\ datetime \in Times \X Times
    /\ parameter_name \in RequestLists
    /\ all_parameters = {}
    /\ start_datetime = 0
    /\ end_datetime = 0
    /\ parameters = <<>>
    /\ series = NoSeries
    /\ t_axis_values = <<>>
    /\ ranges = NoSeries
    /\ status = 0
    /\ detail = ""
    /\ unavailable = {}

Raise(code, message) ==
    /\ pc' = "raised"
    /\ status' = code
    /\ detail' = message

\* station = get_station(location_id); 404 when there is none
get_station ==
    /\ pc = "get_station"
    /\ IF location_known
       THEN /\ pc' = "handle_datetime"
            /\ UNCHANGED <<status, detail>>
       ELSE Raise(404, "Location not found")
    /\ UNCHANGED <<location_known, datetime, parameter_name, all_parameters,
                   start_datetime, end_datetime, parameters, series,
                   t_axis_values, ranges, unavailable>>
    /\ UNCHANGED colVars

\* start_datetime, end_datetime = handle_datetime(datetime)
handle_datetime ==
    /\ pc = "handle_datetime"
    /\ IF IntervalRejected(datetime[1], datetime[2])
       THEN /\ Raise(400, "The start datetime must be before end datetime")
            /\ UNCHANGED <<start_datetime, end_datetime>>
       ELSE /\ pc' = "parameters"
            /\ start_datetime' = datetime[1]
            /\ end_datetime' = datetime[2]
            /\ UNCHANGED <<status, detail>>
    /\ UNCHANGED <<location_known, datetime, parameter_name, all_parameters,
                   parameters, series, t_axis_values, ranges, unavailable>>
    /\ UNCHANGED colVars

\* the parameters dict: every variable of the station in the order the
\* catalog accessor lists them, or the requested ones
ResolveParameters ==
    /\ pc = "parameters"
    /\ \E variables \in Listings :
         LET listed == DictKeys(variables)
         IN  /\ all_parameters' = ToSet(listed)
             /\ IF parameter_name # <<>>
                THEN IF ~check_requested_parameters_exist(parameter_name, listed)
                     THEN /\ Raise(400, "The following parameters are not available")
                          /\ unavailable' = unavailable_parameters(parameter_name, listed)
                          /\ parameters' = listed
                     ELSE /\ pc' = "coverage"
                          /\ parameters' = DictKeys(SortedCasefold(parameter_name))
                          /\ UNCHANGED <<status, detail, unavailable>>
                ELSE /\ pc' = "coverage"
                     /\ parameters' = listed
                     /\ UNCHANGED <<status, detail, unavailable>>
    /\ UNCHANGED <<location_known, datetime, parameter_name,
                   start_datetime, end_datetime, series, t_axis_values, ranges>>
    /\ UNCHANGED colVars

\* get_coverage_for_station and the response built from it
get_coverage_for_station ==
    /\ pc = "coverage"
    /\ IF parameters = <<>>
       THEN \* list(parameters)[0] raises IndexError: an unhandled exception
            /\ Raise(500, "IndexError")
            /\ UNCHANGED <<series, t_axis_values, ranges>>
       ELSE \E stamps \in [ToSet(parameters) -> SUBSET Times] :
              LET get_data(p) == SeriesOf(p, stamps[p])
                  first       == parameters[1]
                  t_axis      == FilterTimes(get_data(first), start_datetime, end_datetime)
              IN  IF NoData(t_axis)
                  THEN /\ Raise(400, "No data available")
                       /\ series' = [p \in {first} |-> get_data(p)]
                       /\ t_axis_values' = t_axis
                       /\ UNCHANGED ranges
                  ELSE /\ pc' = "returned"
                       /\ status' = 200
                       /\ series' = [p \in ToSet(parameters) |-> get_data(p)]
                       /\ t_axis_values' = t_axis
                       /\ ranges' = [p \in ToSet(parameters) |->
                                       NdArrayFloat(FilterValues(get_data(p),
                                                    start_datetime, end_datetime))]
                       /\ UNCHANGED detail
    /\ UNCHANGED <<location_known, datetime, parameter_name, all_parameters,
                   start_datetime, end_datetime, parameters, unavailable>>
    /\ UNCHANGED colVars

\* no location request is in progress
ObsQuiet ==
    /\ pc = "none"
    /\ location_known = FALSE
    /\ datetime = <<0, 0>>
    /\ parameter_name = <<>>
    /\ all_parameters = {}
    /\ start_datetime = 0
    /\ end_datetime = 0
    /\ parameters = <<>>
    /\ series = NoSeries
    /\ t_axis_values = <<>>
    /\ ranges = NoSeries
    /\ status = 0
    /\ detail = ""
    /\ unavailable = {}

(***************************************************************************)
(* The collection metadata requests.                                       *)
(***************************************************************************)
TemporalExtents == {<<start, start + span>> : start \in 0..1, span \in 0..MaxSpan}
TemporalIntervals == {<<<<"P", d, "D">>, d>> : d \in 1..MaxInterval}

InitCol ==
    /\ stations \in Catalogs
    /\ temporal_extent \in TemporalExtents
    /\ temporal_interval \in TemporalIntervals
    /\ cache = <<>>
    /\ cpc = [c \in Callers |-> "start"]
    /\ computed = [c \in Callers |-> <<>>]
    /\ extent = [c \in Callers |-> <<>>]
    /\ repeats = [c \in Callers |-> 0]
    /\ temporal_values = [c \in Callers |-> <<>>]
    /\ reloads = 0
    /\ at_call = [c \in Callers |-> {}]
    /\ reloaded = [c \in Callers |-> FALSE]

\* no collection metadata request is in progress
ColQuiet ==
    /\ stations = {}
    /\ temporal_extent = <<0, 0>>
    /\ temporal_interval = <<<<"P", 1, "D">>, 1>>
    /\ cache = <<>>
    /\ cpc = [c \in Callers |-> "none"]
    /\ computed = [c \in Callers |-> <<>>]
    /\ extent = [c \in Callers |-> <<>>]
    /\ repeats = [c \in Callers |-> 0]
    /\ temporal_values = [c \in Callers |-> <<>>]
    /\ reloads = 0
    /\ at_call = [c \in Callers |-> {}]
    /\ reloaded = [c \in Callers |-> FALSE]

\* get_collection_metadata up to its call of get_spatial_extent(): the memo
\* is looked up, and a stored result is returned without running the body
CallSpatialExtent(c) ==
    /\ cpc[c] = "start"
    /\ at_call' = [at_call EXCEPT ![c] = stations]
    /\ reloaded' = [reloaded EXCEPT ![c] = FALSE]
    /\ IF cache # <<>>
       THEN /\ extent' = [extent EXCEPT ![c] = cache[1]]
            /\ cpc' = [cpc EXCEPT ![c] = "build"]
       ELSE /\ cpc' = [cpc EXCEPT ![c] = "body"]
            /\ UNCHANGED extent
    /\ UNCHANGED <<stations, temporal_extent, temporal_interval, cache, computed,
                   repeats, temporal_values, reloads>>
    /\ UNCHANGED obsVars

\* the body of get_spatial_extent; min() of an empty list raises ValueError
SpatialExtentBody(c) ==
    /\ cpc[c] = "body"
    /\ IF stations = {}
       THEN /\ cpc' = [cpc EXCEPT ![c] = "raised"]
            /\ UNCHANGED computed
       ELSE /\ cpc' = [cpc EXCEPT ![c] = "store"]
            /\ computed' = [computed EXCEPT ![c] = get_spatial_extent(stations)]
    /\ UNCHANGED <<stations, temporal_extent, temporal_interval, cache, extent,
                   repeats, temporal_values, reloads, at_call, reloaded>>
    /\ UNCHANGED obsVars

\* functools.cache stores the result of the body and returns it
SpatialExtentStore(c) ==
    /\ cpc[c] = "store"
    /\ cache' = <<computed[c]>>
    /\ extent' = [extent EXCEPT ![c] = computed[c]]
    /\ cpc' = [cpc EXCEPT ![c] = "build"]
    /\ UNCHANGED <<stations, temporal_extent, temporal_interval, computed,
                   repeats, temporal_values, reloads, at_call, reloaded>>
    /\ UNCHANGED obsVars

\* the rest of get_collection_metadata: repeats, temporal_values, Collection
get_collection_metadata(c) ==
    /\ cpc[c] = "build"
    /\ LET start    == temporal_extent[1]
           end      == temporal_extent[2]
           duration_str       == temporal_interval[1]
           duration_timedelta == temporal_interval[2]
           n        == Repeats(start, end, duration_timedelta)
       IN  /\ repeats' = [repeats EXCEPT ![c] = n]
           /\ temporal_values' = [temporal_values EXCEPT ![c] =
                                    <<TemporalValue(n, start, duration_str)>>]
    /\ cpc' = [cpc EXCEPT ![c] = "returned"]
    /\ UNCHANGED <<stations, temporal_extent, temporal_interval, cache, computed,
                   extent, reloads, at_call, reloaded>>
    /\ UNCHANGED obsVars

\* the catalog accessor reloads the catalog: get_stations() lists another
\* catalog from now on.  Nothing in the code clears the memo.
ReloadCatalog ==
    /\ reloads < MaxReloads
    /\ \E catalog \in Catalogs \ {stations} : stations' = catalog
    /\ reloads' = reloads + 1
    /\ reloaded' = [c \in Callers |-> reloaded[c] \/ cpc[c] \in {"body", "store"}]
    /\ UNCHANGED <<temporal_extent, temporal_interval, cache, cpc, computed,
                   extent, repeats, temporal_values, at_call>>
    /\ UNCHANGED obsVars

(***************************************************************************)
(* Specifications.  Spec: one location query.  SpecCollection: the         *)
(* collection metadata requests over a catalog that stays as loaded.       *)
(* SpecReload: the same with reloads of the catalog.                       *)
(***************************************************************************)
Init == InitObs /\ ColQuiet

Next ==
    \/ get_station
    \/ handle_datetime
    \/ ResolveParameters
    \/ get_coverage_for_station

Spec == Init /\ [][Next]_vars

InitCollection == ObsQuiet /\ InitCol

NextCollection ==
    \E c \in Callers :
        \/ CallSpatialExtent(c)
        \/ SpatialExtentBody(c)
        \/ SpatialExtentStore(c)
        \/ get_collection_metadata(c)

SpecCollection == InitCollection /\ [][NextCollection]_vars

NextReload ==
    \/ NextCollection
    \/ ReloadCatalog

\* the reloads are followed over the deployment of the concrete scenario:
\* 2024-02-22 to 2024-02-27, one observation a day
InitReload ==
    /\ InitCollection
    /\ temporal_extent = <<0, 5>>
    /\ temporal_interval = <<<<"P", 1, "D">>, 1>>

SpecReload == InitReload /\ [][NextReload]_vars

(***************************************************************************)
(* Properties of the location query (checked under Spec).                  *)
(***************************************************************************)
\* get_coverage_for_station was entered and fetched the anchor's series
AnchorFetched == parameters # <<>> /\ parameters[1] \in DOMAIN series

\* the parameters were resolved from the query (lines 147-156 ran)
ParametersResolved ==
    \/ pc \in {"coverage", "returned"}
    \/ /\ pc = "raised"
       /\ detail \in {"The following parameters are not available",
                      "No data available", "IndexError"}

\* indices of the points of data whose time is inside the requested interval
InsideIndices(data) ==
    {i \in 1..Len(data) : start_datetime <= data[i][1] /\ data[i][1] <= end_datetime}

\* the points of index set I of data, in series order, projected on field k
KeptBlock(data, I, k) ==
    IF I = {} THEN <<>>
    ELSE [n \in 1..Cardinality(I) |-> data[SetMin(I) + n - 1][k]]

\* C1: in every Coverage returned, every range's number of values and its
\* shape[0] equal the length of the time axis of the domain.
C1_RangesMatchTimeAxis ==
    pc = "returned" =>
        \A p \in DOMAIN ranges :
            /\ Len(ranges[p].values) = Len(t_axis_values)
            /\ ranges[p].shape[1] = Len(t_axis_values)

\* C2: in a returned Coverage, a point of a parameter's series is in the
\* output (its value in the parameter's range, and for the first parameter
\* its time on the time axis) if and only if start_datetime <= t <=
\* end_datetime, both bounds included, and the kept points keep their order.
C2_InclusiveFilter ==
    pc = "returned" =>
        /\ \A p \in ToSet(parameters) :
             LET data == series[p]
             IN  /\ \A i \in 1..Len(data) :
                        (data[i][2] \in ToSet(ranges[p].values))
                            <=> (start_datetime <= data[i][1] /\ data[i][1] <= end_datetime)
                 /\ ranges[p].values = KeptBlock(data, InsideIndices(data), 2)
                 /\ ranges[p].shape = <<Cardinality(InsideIndices(data)), 1, 1>>
        /\ LET data == series[parameters[1]]
           IN  /\ \A i \in 1..Len(data) :
                      (data[i][1] \in ToSet(t_axis_values))
                          <=> (start_datetime <= data[i][1] /\ data[i][1] <= end_datetime)
               /\ t_axis_values = KeptBlock(data, InsideIndices(data), 1)

\* a Coverage is returned for an interval with a point exactly at its start,
\* a point exactly at its end, a point one unit before its start and a
\* point one unit after its end; the two outside are dropped
C2_Witness ==
    /\ pc = "returned"
    /\ \E p \in ToSet(parameters) :
         LET stamps == {series[p][i][1] : i \in 1..Len(series[p])}
         IN  /\ {start_datetime - 1, start_datetime, end_datetime, end_datetime + 1}
                    \subseteq stamps
             /\ Len(ranges[p].values) = Cardinality(stamps) - 2

\* C3: when the first parameter of the resolved set has no point inside the
\* interval, get_coverage_for_station raises 400 "No data available" and no
\* Coverage is returned; a returned Coverage has a non-empty time axis.
C3_NoDataFails ==
    /\ pc = "returned" => Len(t_axis_values) >= 1
    /\ (AnchorFetched /\ InsideIndices(series[parameters[1]]) = {}) =>
           /\ pc = "raised"
           /\ status = 400
           /\ detail = "No data available"
           /\ ranges = NoSeries

\* the anchor parameter has points, none of them inside the interval, and
\* the request failed with the no-data error
C3_Witness ==
    /\ AnchorFetched
    /\ series[parameters[1]] # <<>>
    /\ InsideIndices(series[parameters[1]]) = {}
    /\ detail = "No data available"

\* C4: with requested names, the request fails with the unknown-parameter
\* error if and only if some requested name is not among the station's
\* variables; the error reports exactly the requested names that are not
\* available, and no series is fetched nor range built.
C4_UnknownParametersReported ==
    (ParametersResolved /\ parameter_name # <<>>) =>
        LET failed == detail = "The following parameters are not available"
        IN  /\ failed <=> (\E i \in 1..Len(parameter_name) :
                               parameter_name[i] \notin all_parameters)
            /\ failed =>
                 /\ status = 400
                 /\ \A n \in ParameterIds :
                        n \in unavailable
                            <=> (n \in ToSet(parameter_name) /\ n \notin all_parameters)
                 /\ series = NoSeries
                 /\ ranges = NoSeries
            /\ ~failed => unavailable = {}

\* an unknown name was requested together with an available one
C4_Witness ==
    /\ detail = "The following parameters are not available"
    /\ Cardinality(unavailable) >= 1
    /\ \E i \in 1..Len(parameter_name) : parameter_name[i] \in all_parameters

RECURSIVE SortedById(_)
\* the ids of S in ascending (code point) order
SortedById(S) ==
    IF S = {} THEN <<>>
    ELSE LET least == CHOOSE x \in S : \A y \in S \ {x} : StrLess(x, y)
         IN  <<least>> \o SortedById(S \ {least})

\* C5: without requested names, the resolved parameters are the station's
\* variables sorted by id, in whatever order the catalog accessor lists them.
C5_DefaultOrderSortedById ==
    (ParametersResolved /\ parameter_name = <<>>) =>
        parameters = SortedById(all_parameters)

IsPermutation(a, b) ==
    /\ Len(a) = Len(b)
    /\ \A x \in ParameterIds :
          Cardinality({i \in 1..Len(a) : a[i] = x})
              = Cardinality({i \in 1..Len(b) : b[i] = x})

\* C6: with requested names, every request that lists the same names in
\* another order resolves to the same parameter sequence.
C6_RequestOrderIndependent ==
    (pc \in {"coverage", "returned"} /\ parameter_name # <<>>) =>
        \A other \in RequestLists :
            IsPermutation(other, parameter_name)
                => DictKeys(SortedCasefold(other)) = parameters

\* C7: handle_datetime rejects the interval (400) if and only if
\* end < start; an accepted interval, start = end included, is passed on
\* unchanged; after a rejection no parameter is resolved, no series fetched.
C7_IntervalRejection ==
    (location_known /\ pc \notin {"get_station", "handle_datetime", "none"}) =>
        LET rejected == detail = "The start datetime must be before end datetime"
        IN  /\ rejected <=> datetime[2] < datetime[1]
            /\ rejected =>
                 /\ pc = "raised"
                 /\ status = 400
                 /\ all_parameters = {}
                 /\ parameters = <<>>
                 /\ series = NoSeries
                 /\ ranges = NoSeries
            /\ ~rejected =>
                 /\ start_datetime = datetime[1]
                 /\ end_datetime = datetime[2]

\* an interval with start = end went through and a Coverage was returned
C7_Witness ==
    /\ pc = "returned"
    /\ datetime[1] = datetime[2]
    /\ start_datetime = end_datetime

C9_TightBoundingBox ==
    \A c \in Callers :
        /\ cpc[c] \in {"build", "returned"} =>
             /\ stations # {}
             /\ LET left   == extent[c][1]
                    bottom == extent[c][2]
                    right  == extent[c][3]
                    top    == extent[c][4]
                IN  /\ left <= right
                    /\ bottom <= top
                    /\ \A x \in stations :
                          /\ left <= x.longitude /\ x.longitude <= right
                          /\ bottom <= x.latitude /\ x.latitude <= top
                    /\ \E x \in stations : x.longitude = left
                    /\ \E x \in stations : x.longitude = right
                    /\ \E x \in stations : x.latitude = bottom
                    /\ \E x \in stations : x.latitude = top
        /\ cpc[c] = "raised" => (stations = {} /\ extent[c] = <<>>)
        /\ stations = {} => cpc[c] \notin {"store", "build", "returned"}

\* an extent was returned for two stations that differ in longitude and in
\* latitude
C9_Witness ==
    \E c \in Callers :
        /\ cpc[c] = "returned"
        /\ Cardinality(stations) = 2
        /\ extent[c][1] < extent[c][3]
        /\ extent[c][2] < extent[c][4]

\* C10: a call of get_spatial_extent() on a non-empty catalog, during which
\* the catalog is not reloaded, returns the bounding box of the catalog as
\* it is at that call, whatever was memoized before a reload.
C10_ExtentOfCurrentCatalog ==
    \A c \in Callers :
        (cpc[c] \in {"build", "returned"} /\ ~reloaded[c] /\ at_call[c] # {}) =>
            extent[c] = get_spatial_extent(at_call[c])

=============================================================================
